---- MODULE Spec2Model ----
(***************************************************************************)
(* Model of the inference request orchestrator of the agent dashboard:     *)
(*   - GroqAPIClient (src/src/pages/Tasks.tsx): the request queue, its     *)
(*     drain loop, request execution and the stream decoder;               *)
(*   - StreamingService (src/src/services/streamingService.ts): the event  *)
(*     bus with its bounded history;                                       *)
(*   - the credential validators (src/unnamed/part_003 and Tasks.tsx);     *)
(*   - Base44Client (src/src/api/base44Client.ts): the agent and task      *)
(*     Maps and their copy in localStorage;                                *)
(*   - the agent dialog of the Agents page (src/src/pages/Agents.tsx).     *)
(* Text is modelled as a sequence of one-character strings.                *)
(***************************************************************************)
EXTENDS Integers, Sequences, FiniteSets, TLC

VARIABLES
    \* ---- stream decoder run on its own (processStreamResponse) ----
    stream,          \* the whole response text the reader will deliver
    reader,          \* the part of the response text not yet read
    dec,             \* locals of processStreamResponse and the callback log
    decPc,           \* "reading" | "returned" | "threw"
    aligned,         \* every chunk read so far ended at the end of a line
    \* ---- StreamingService ----
    listeners,       \* Set<StreamListener>, in insertion order
    events,          \* StreamEvent[]
    nextId,          \* number of events emitted so far (the next event's id)
    emitted,         \* every event emitted since the last clearEvents
    subscribed,      \* listeners with a live subscription, in subscription order
    lastEmit,        \* what the last emit call did
    \* ---- GroqAPIClient ----
    now,             \* Date.now(), in ms
    requestQueue,    \* the queued units (ids into units), head first
    isProcessing,
    lastRequestTime,
    loops,           \* the processQueue invocations that have not returned
    units,           \* every unit of work submitted through inference()
    \* ---- Tasks page and its stores ----
    groq_api_key,    \* localStorage item 'groq_api_key': {} or {key}
    tasks,           \* base44 task records (status, result)
    tasksView,       \* the task list the page rendered (query data)
    processingId,
    streamingContent,
    thinkingMessage,
    toast,           \* the last notification shown
    moves,           \* the status changes Task.update made: <<id, from, to>>
    \* ---- Base44Client and the browser's localStorage ----
    base44,          \* the Maps this.agents and this.tasks
    localStorage,    \* the items 'base44_agents' and 'base44_tasks'
    quota,           \* what localStorage can hold before setItem throws
    saveDepth,       \* nested saveToStorage calls that have not returned
    saveOutcome,     \* how the promise of the last saveToStorage call settled
    ops,             \* entity operations so far
    \* ---- Agents page: the create / edit dialog ----
    agent,           \* the agent record in the store
    editingAgent,    \* the record the dialog edits
    formData,        \* the fields of the dialog
    saves            \* handleSubmit calls so far

decoderVars == <<stream, reader, dec, decPc, aligned>>
busVars == <<listeners, events, nextId, emitted, subscribed, lastEmit>>
clientVars == <<now, requestQueue, isProcessing, lastRequestTime, loops, units>>
pageVars == <<groq_api_key, tasks, tasksView, processingId, streamingContent,
              thinkingMessage, toast, moves>>
storeVars == <<base44, localStorage, quota, saveDepth, saveOutcome, ops>>
formVars == <<agent, editingAgent, formData, saves>>

(***************************************************************************)
(* Text helpers (JavaScript String methods used by the code)               *)
(***************************************************************************)
Space == " "
Newline == "\n"
CarriageReturn == "\r"
WhiteSpace == {Space, Newline, CarriageReturn}

\* String.prototype.startsWith
StartsWith(s, p) == Len(s) >= Len(p) /\ SubSeq(s, 1, Len(p)) = p

\* String.prototype.endsWith
EndsWith(s, p) == Len(s) >= Len(p) /\ SubSeq(s, Len(s) - Len(p) + 1, Len(s)) = p

\* String.prototype.trim
RECURSIVE TrimLeft(_)
TrimLeft(s) ==
    IF s = <<>> THEN s
    ELSE IF Head(s) \in WhiteSpace THEN TrimLeft(Tail(s)) ELSE s

RECURSIVE TrimRight(_)
TrimRight(s) ==
    IF s = <<>> THEN s
    ELSE IF s[Len(s)] \in WhiteSpace THEN TrimRight(SubSeq(s, 1, Len(s) - 1)) ELSE s

Trim(s) == TrimRight(TrimLeft(s))

\* String.prototype.split('\n'): the pieces between newlines, the piece after
\* the last newline included (it is empty when the text ends with a newline)
NewlinesOf(s) == {i \in 1..Len(s) : s[i] = Newline}

\* position of the k-th newline of s; 0 for k = 0, Len(s) + 1 past the last
NewlineAt(s, k) ==
    IF k = 0 THEN 0
    ELSE IF k > Cardinality(NewlinesOf(s)) THEN Len(s) + 1
    ELSE CHOOSE i \in NewlinesOf(s) : Cardinality({j \in NewlinesOf(s) : j < i}) = k - 1

SplitLines(s) ==
    [k \in 1..(Cardinality(NewlinesOf(s)) + 1) |->
        SubSeq(s, NewlineAt(s, k - 1) + 1, NewlineAt(s, k) - 1)]

\* Array.prototype.filter(line => line.trim())
RECURSIVE FilterNonBlank(_)
FilterNonBlank(lines) ==
    IF lines = <<>> THEN <<>>
    ELSE IF Trim(Head(lines)) = <<>> THEN FilterNonBlank(Tail(lines))
    ELSE <<Head(lines)>> \o FilterNonBlank(Tail(lines))

(***************************************************************************)
(* Stream decoder: GroqAPIClient.processStreamResponse                     *)
(***************************************************************************)
DataPrefix == <<"d","a","t","a",":"," ">>
DoneLine == <<"d","a","t","a",":"," ","[","D","O","N","E","]">>

\* The text of a delta frame around its content:
\*   {"choices":[{"delta":{"content":"   ...   "}}]}
FrameOpen == <<"{","\"","c","h","o","i","c","e","s","\"",":","[","{","\"","d","e","l","t","a","\"",":","{","\"","c","o","n","t","e","n","t","\"",":","\"">>
FrameClose == <<"\"","}","}","]","}">>

\* Characters that cannot stand unescaped inside a JSON string
IsPlainText(s) == \A i \in 1..Len(s) : s[i] \notin {"\"", "\\", Newline, CarriageReturn}

\* JSON.parse(line.substring(6)) followed by json.choices[0]?.delta?.content || "".
\* The result is the delta text of a well-formed delta frame.  Every other
\* payload yields no delta: either JSON.parse throws, or reading choices[0]
\* of a value without choices throws (both caught by the catch that skips
\* the line), or the content is absent or empty.  JSON.parse accepts white
\* space around the value.
ParseDelta(payload) ==
    LET p == Trim(payload) IN
    IF /\ Len(p) >= Len(FrameOpen) + Len(FrameClose)
       /\ StartsWith(p, FrameOpen)
       /\ EndsWith(p, FrameClose)
       /\ IsPlainText(SubSeq(p, Len(FrameOpen) + 1, Len(p) - Len(FrameClose)))
    THEN SubSeq(p, Len(FrameOpen) + 1, Len(p) - Len(FrameClose))
    ELSE <<>>

\* The locals of processStreamResponse: fullContent, firstChunk; calls is the
\* log of the callback invocations (onThinking(null) and onChunk(text));
\* returned is set once the function has returned.
NewDecoder(hasOnThinking) ==
    [fullContent |-> <<>>, firstChunk |-> TRUE, calls |-> <<>>,
     returned |-> FALSE, onThinking |-> hasOnThinking]

OnThinkingNull == [cb |-> "onThinking", arg |-> <<"null">>]
OnChunk(text) == [cb |-> "onChunk", arg |-> text]

\* (mutant) onChunk called with the delta instead of the accumulated text
ProcessLineDeltaOnly(d, line) ==
    IF line = DoneLine THEN [d EXCEPT !.returned = TRUE]
    ELSE IF StartsWith(line, DataPrefix) THEN
        LET content == ParseDelta(SubSeq(line, 7, Len(line))) IN
        IF content # <<>> THEN
            LET notify == d.firstChunk /\ d.onThinking IN
            [d EXCEPT !.firstChunk = IF notify THEN FALSE ELSE @,
                      !.fullContent = @ \o content,
                      !.calls = (IF notify THEN Append(@, OnThinkingNull) ELSE @)
                                    \o <<OnChunk(content)>>]
        ELSE d
    ELSE d

\* One iteration of `for (const line of lines)`
ProcessLine(d, line) ==
    IF line = DoneLine THEN [d EXCEPT !.returned = TRUE]
    ELSE IF StartsWith(line, DataPrefix) THEN
        LET content == ParseDelta(SubSeq(line, 7, Len(line))) IN
        IF content # <<>> THEN
            LET notify == d.firstChunk /\ d.onThinking
                full == d.fullContent \o content IN
            [d EXCEPT !.firstChunk = IF notify THEN FALSE ELSE @,
                      !.fullContent = full,
                      !.calls = (IF notify THEN Append(@, OnThinkingNull) ELSE @)
                                    \o <<OnChunk(full)>>]
        ELSE d
    ELSE d

\* (mutant) the loop going on after the sentinel
RECURSIVE ProcessLinesNoStop(_, _)
ProcessLinesNoStop(d, lines) ==
    IF lines = <<>> THEN d
    ELSE ProcessLinesNoStop(ProcessLine(d, Head(lines)), Tail(lines))

\* The for loop over the lines of one chunk; it stops at the return
RECURSIVE ProcessLines(_, _)
ProcessLines(d, lines) ==
    IF lines = <<>> \/ d.returned THEN d
    ELSE ProcessLines(ProcessLine(d, Head(lines)), Tail(lines))

\* The body of the while loop for one chunk that reader.read() delivered
ProcessChunk(d, chunk) == ProcessLines(d, FilterNonBlank(SplitLines(chunk)))

(***************************************************************************)
(* Response texts                                                          *)
(***************************************************************************)
Frame(content) == DataPrefix \o FrameOpen \o content \o FrameClose \o <<Newline>>
Done == DoneLine \o <<Newline>>

Hel == <<"H","e","l">>
Lo == <<"l","o">>
Hello == Hel \o Lo
Hi == <<"H","i">>

\* data: {"choices":[{"delta":{"content":"Hel"}}]}
\* data: {"choices":[{"delta":{"content":"lo"}}]}
\* data: [DONE]
HelloStream == Frame(Hel) \o Frame(Lo) \o Done
\* the same frames, the stream ending without the sentinel
HelloNoDone == Frame(Hel) \o Frame(Lo)
\* a frame without content between two deltas
EmptyDeltaStream == Frame(Hel) \o Frame(<<>>) \o Frame(Lo) \o Done

\* a frame after the sentinel
AfterDoneStream == Frame(Hel) \o Done \o Frame(Lo)
\* no frame with a non-empty delta
NoDeltaStream == Frame(<<>>) \o Done

\* Malformed data lines: a payload that JSON.parse rejects, and a payload
\* that parses to an object without choices
BadJsonLine == DataPrefix \o <<"{","o","o","p","s">>
NoChoicesLine == DataPrefix \o <<"{","\"","i","d","\"",":","1","}">>
MalformedLines == {BadJsonLine, NoChoicesLine}

\* the lines of HelloStream
HelloLines == <<DataPrefix \o FrameOpen \o Hel \o FrameClose,
                DataPrefix \o FrameOpen \o Lo \o FrameClose,
                DoneLine>>

\* the text of a response made of these lines
RECURSIVE Unlines(_)
Unlines(lines) ==
    IF lines = <<>> THEN <<>>
    ELSE Head(lines) \o <<Newline>> \o Unlines(Tail(lines))

\* lines with line inserted after the first i of them
InsertAt(lines, i, line) ==
    SubSeq(lines, 1, i) \o <<line>> \o SubSeq(lines, i + 1, Len(lines))

\* HelloStream with one malformed data line inserted at any position
MalformedStreams ==
    {Unlines(InsertAt(HelloLines, i, line)) : i \in 0..Len(HelloLines), line \in MalformedLines}

Streams == {HelloStream, HelloNoDone, EmptyDeltaStream, AfterDoneStream, NoDeltaStream}
               \cup MalformedStreams

(***************************************************************************)
(* Credentials                                                             *)
(***************************************************************************)
KeyPrefix == <<"g","s","k","_">>
MinKeyLength == 40

\* a text of n characters that begins with prefix (cut to n) and goes on with "k"
KeyOf(prefix, n) == [i \in 1..n |-> IF i <= Len(prefix) THEN prefix[i] ELSE "k"]

ValidKey == KeyOf(KeyPrefix, MinKeyLength)
LongKey == KeyOf(KeyPrefix, MinKeyLength + 1)
ShortKey == KeyOf(KeyPrefix, MinKeyLength - 1)
PrefixOnlyKey == KeyPrefix
BadPrefixKey == KeyOf(<<"x","s","k","_">>, MinKeyLength)
EmptyKey == <<>>
BlankKey == <<Space, Space>>
\* 39 characters and a trailing space: 40 characters before trimming
PaddedShortKey == Append(ShortKey, Space)
PaddedValidKey == Append(ValidKey, Space)

Keys == {ValidKey, LongKey, ShortKey, PrefixOnlyKey, BadPrefixKey, EmptyKey,
         BlankKey, PaddedShortKey, PaddedValidKey}

\* validateGroqApiKey(apiKey).isValid
validateGroqApiKey(apiKey) ==
    IF apiKey = <<>> \/ Trim(apiKey) = <<>> THEN FALSE
    ELSE IF ~StartsWith(apiKey, KeyPrefix) THEN FALSE
    ELSE IF Len(apiKey) < MinKeyLength THEN FALSE
    ELSE TRUE

\* validateGroqApiKey(apiKey).error
validateGroqApiKeyError(apiKey) ==
    IF apiKey = <<>> \/ Trim(apiKey) = <<>> THEN "API key is required"
    ELSE IF ~StartsWith(apiKey, KeyPrefix) THEN "API key must start with gsk_"
    ELSE "API key appears to be too short"

KeyRequiredError == "Groq API Key is required. Please configure it in Settings."
KeyFormatError == "Invalid Groq API key format. Please check your API key."
InvalidCredentialErrors == {KeyRequiredError, KeyFormatError}

\* (mutant) validateApiKey without the length test
validateApiKeyNoLength(apiKey) ==
    IF Trim(apiKey) = <<>> THEN KeyRequiredError
    ELSE IF ~StartsWith(apiKey, KeyPrefix) THEN KeyFormatError
    ELSE "ok"

\* GroqAPIClient.validateApiKey: the error it throws, "ok" when it returns
validateApiKey(apiKey) ==
    IF Trim(apiKey) = <<>> THEN KeyRequiredError
    ELSE IF ~StartsWith(apiKey, KeyPrefix) \/ Len(apiKey) < MinKeyLength THEN KeyFormatError
    ELSE "ok"

(***************************************************************************)
(* Responses of the provider and their classification                      *)
(***************************************************************************)
RateLimitError == "Rate limit exceeded. Please wait a moment and try again."
UnauthorizedError == "Invalid API key. Please check your Groq API key in Settings."
UnavailableError == "Groq API is temporarily unavailable. Please try again later."
NoBodyError == "No response body received from API"
NetworkError == "Failed to fetch"
StreamError == "network error"
ProviderMessage == "provider message"

\* `HTTP ${response.status}: ${response.statusText}`
StatusLine(status) ==
    CASE status = 400 -> "HTTP 400: Bad Request"
      [] status = 401 -> "HTTP 401: Unauthorized"
      [] status = 422 -> "HTTP 422: Unprocessable Entity"
      [] status = 429 -> "HTTP 429: Too Many Requests"
      [] status = 500 -> "HTTP 500: Internal Server Error"
      [] status = 503 -> "HTTP 503: Service Unavailable"
      [] OTHER -> "HTTP"

\* (mutant) the provider's message thrown whatever the status
handleApiErrorMessageOnly(status, hasMessage) ==
    IF hasMessage THEN ProviderMessage ELSE StatusLine(status)

\* handleApiError(response): the message of the error it throws.  hasMessage
\* tells whether response.json() yields an error.message.
handleApiError(status, hasMessage) ==
    LET errorMessage == IF hasMessage THEN ProviderMessage ELSE StatusLine(status) IN
    IF status = 429 THEN RateLimitError
    ELSE IF status = 401 THEN UnauthorizedError
    ELSE IF status >= 500 THEN UnavailableError
    ELSE errorMessage

(***************************************************************************)
(* Event bus: StreamingService                                             *)
(***************************************************************************)
maxEvents == 100

NoEmit == [id |-> 0, at |-> <<>>, notified |-> <<>>, threw |-> FALSE]

\* the bus after construction, no component mounted
InitBusIdle ==
    /\ listeners = <<>>
    /\ events = <<>>
    /\ nextId = 1
    /\ emitted = <<>>
    /\ subscribed = <<>>
    /\ lastEmit = NoEmit

SeqToSet(q) == {q[i] : i \in 1..Len(q)}

\* Set.prototype.add: a new element goes last, a present one keeps its place
SetAdd(ls, l) == IF l \in SeqToSet(ls) THEN ls ELSE Append(ls, l)

\* Set.prototype.delete
SetDelete(ls, l) == SelectSeq(ls, LAMBDA x : x # l)

\* (mutant) the history cut at its front: slice(0, maxEvents)
PushEventKeepOldest(evs, ev) ==
    LET pushed == Append(evs, ev) IN
    IF Len(pushed) > maxEvents THEN SubSeq(pushed, 1, maxEvents) ELSE pushed

\* this.events.push(streamEvent);
\* if (this.events.length > this.maxEvents) this.events = this.events.slice(-this.maxEvents)
PushEvent(evs, ev) ==
    LET pushed == Append(evs, ev) IN
    IF Len(pushed) > maxEvents
    THEN SubSeq(pushed, Len(pushed) - maxEvents + 1, Len(pushed))
    ELSE pushed

\* this.listeners.forEach(listener => listener(streamEvent)): the listeners
\* are called in insertion order; an exception thrown by a listener leaves
\* forEach, so the listeners after it are not called.  bad is the set of
\* listeners that throw on this call.
Notified(ls, bad) ==
    IF \E i \in 1..Len(ls) : ls[i] \in bad
    THEN SubSeq(ls, 1, CHOOSE i \in 1..Len(ls) :
                          /\ ls[i] \in bad
                          /\ \A j \in 1..(i - 1) : ls[j] \notin bad)
    ELSE ls

Throws(ls, bad) == \E i \in 1..Len(ls) : ls[i] \in bad

\* StreamEvent: the id stands for `${Date.now()}_${random}` (distinct per
\* event); the timestamp is not modelled
StreamEvent(payload, id) ==
    [id |-> id, type |-> payload.type, content |-> payload.content,
     agentId |-> payload.agentId, taskId |-> payload.taskId]

\* getEvents(): a copy of the history
getEvents == events

ListenerIds == {"monitor", "dashboard"}

\* Number of emits, counted from the start, whose payload is chosen freely
VariedEmits == 2
\* Total number of emits explored
MaxEmits == 102

Payloads ==
    {[type |-> "thinking", content |-> "started", agentId |-> "A1", taskId |-> "T1"],
     [type |-> "output", content |-> "text", agentId |-> "A1", taskId |-> "T1"]}

DefaultPayload == [type |-> "output", content |-> "text", agentId |-> "A1", taskId |-> "T1"]

\* subscribe(listener)
Subscribe(l) ==
    /\ listeners' = SetAdd(listeners, l)
    /\ subscribed' = IF l \in SeqToSet(subscribed) THEN subscribed ELSE Append(subscribed, l)
    /\ UNCHANGED <<events, nextId, emitted, lastEmit, decoderVars, clientVars, pageVars, storeVars, formVars>>

\* the function returned by subscribe(listener)
Unsubscribe(l) ==
    /\ l \in SeqToSet(subscribed)
    /\ listeners' = SetDelete(listeners, l)
    /\ subscribed' = SelectSeq(subscribed, LAMBDA x : x # l)
    /\ UNCHANGED <<events, nextId, emitted, lastEmit, decoderVars, clientVars, pageVars, storeVars, formVars>>

\* emit(event); the listeners in bad throw when called
Emit(payload, bad) ==
    /\ nextId <= MaxEmits
    /\ LET ev == StreamEvent(payload, nextId) IN
        /\ events' = PushEvent(events, ev)
        /\ emitted' = Append(emitted, ev)
        /\ lastEmit' = [id |-> nextId, at |-> subscribed,
                        notified |-> Notified(listeners, bad),
                        threw |-> Throws(listeners, bad)]
    /\ nextId' = nextId + 1
    /\ UNCHANGED <<listeners, subscribed, decoderVars, clientVars, pageVars, storeVars, formVars>>

\* clearEvents(), explored on an early history and on a full one
ClearEvents ==
    /\ events # <<>>
    /\ nextId <= VariedEmits + 1 \/ Len(events) = maxEvents
    /\ events' = <<>>
    /\ emitted' = <<>>
    /\ UNCHANGED <<listeners, nextId, subscribed, lastEmit, decoderVars, clientVars, pageVars, storeVars, formVars>>

NextBus ==
    \/ \E l \in ListenerIds : Subscribe(l)
    \/ \E l \in ListenerIds : Unsubscribe(l)
    \/ \E p \in (IF nextId <= VariedEmits THEN Payloads ELSE {DefaultPayload}),
          bad \in SUBSET ListenerIds : Emit(p, bad)
    \/ ClearEvents

(***************************************************************************)
(* GroqAPIClient: the request queue and the execution of a unit            *)
(***************************************************************************)
RATE_LIMIT_DELAY == 100

\* The clock advances in steps of TickMs, MaxTicks times at most
TickMs == RATE_LIMIT_DELAY \div 2
MaxTicks == 5
\* Date.now() when the page is loaded: far more than the delay after 0
Epoch == 10 * RATE_LIMIT_DELAY
\* Number of inference() calls explored
MaxUnits == 3

\* Tasks of the page: T2 is chained to T1, T3 is assigned to an agent that
\* is not in the agent list, T4 stands alone like T1
TaskIds == {"T1", "T2", "T3", "T4"}
Agents == {"A1"}
agent_id(t) == IF t = "T3" THEN "A9" ELSE "A1"
parent_task_id(t) == IF t = "T2" THEN "T1" ELSE "none"
description(t) == <<"Instructions of ", t>>

\* The state that a step of the client or of the page reads and writes, as
\* one record
World ==
    [requestQueue |-> requestQueue, isProcessing |-> isProcessing,
     lastRequestTime |-> lastRequestTime, loops |-> loops, units |-> units,
     tasks |-> tasks, processingId |-> processingId,
     streamingContent |-> streamingContent, thinkingMessage |-> thinkingMessage,
     toast |-> toast, moves |-> moves, events |-> events, nextId |-> nextId,
     emitted |-> emitted, lastEmit |-> lastEmit]

\* The task list the page renders follows the store: every Task.update goes
\* through updateTaskMutation, whose onSuccess invalidates the 'tasks' query,
\* and the list is fetched again
SetWorld(w) ==
    /\ requestQueue' = w.requestQueue
    /\ isProcessing' = w.isProcessing
    /\ lastRequestTime' = w.lastRequestTime
    /\ loops' = w.loops
    /\ units' = w.units
    /\ tasks' = w.tasks
    /\ tasksView' = w.tasks
    /\ moves' = w.moves
    /\ processingId' = w.processingId
    /\ streamingContent' = w.streamingContent
    /\ thinkingMessage' = w.thinkingMessage
    /\ toast' = w.toast
    /\ events' = w.events
    /\ nextId' = w.nextId
    /\ emitted' = w.emitted
    /\ lastEmit' = w.lastEmit

\* streamingService.emit called by the page; the components that listen
\* (the output monitor, the activity dashboard) only store the event
EmitW(w, payload) ==
    LET ev == StreamEvent(payload, w.nextId) IN
    [w EXCEPT !.events = PushEvent(@, ev),
              !.emitted = Append(@, ev),
              !.lastEmit = [id |-> w.nextId, at |-> subscribed,
                            notified |-> Notified(listeners, {}), threw |-> FALSE],
              !.nextId = @ + 1]

emitThinking(w, content, agentId, taskId) ==
    EmitW(w, [type |-> "thinking", content |-> content, agentId |-> agentId, taskId |-> taskId])

emitOutput(w, content, agentId, taskId) ==
    EmitW(w, [type |-> "output", content |-> content, agentId |-> agentId, taskId |-> taskId])

emitError(w, error, agentId, taskId) ==
    EmitW(w, [type |-> "error", content |-> error, agentId |-> agentId, taskId |-> taskId])

emitAgentStatus(w, agentId, status) ==
    EmitW(w, [type |-> "agent_status", content |-> <<"Agent ", status>>,
              agentId |-> agentId, taskId |-> "none"])

\* A response of the provider.  kind: "network" (fetch rejects), "http" (a
\* non-success status), "nobody" (success without a body), "ok" (a body
\* delivered as chunks; breaks: the connection fails after the chunks)
Response(kind, status, hasMessage, chunks, breaks) ==
    [kind |-> kind, status |-> status, hasMessage |-> hasMessage,
     chunks |-> chunks, breaks |-> breaks]

NoResponse == Response("none", 0, FALSE, <<>>, FALSE)
HelloResponse == Response("ok", 200, FALSE, <<Frame(Hel), Frame(Lo) \o Done>>, FALSE)
BrokenResponse == Response("ok", 200, FALSE, <<Frame(Hel)>>, TRUE)
NoBodyResponse == Response("nobody", 200, FALSE, <<>>, FALSE)
HiResponse == Response("ok", 200, FALSE, <<Frame(Hi) \o Done>>, FALSE)
RateLimitedResponse == Response("http", 429, TRUE, <<>>, FALSE)
BadRequestResponse == Response("http", 400, FALSE, <<>>, FALSE)
UnauthorizedResponse == Response("http", 401, TRUE, <<>>, FALSE)
UnavailableResponse == Response("http", 503, FALSE, <<>>, FALSE)
ProviderErrorResponse == Response("http", 422, TRUE, <<>>, FALSE)
NetworkFailure == Response("network", 0, FALSE, <<>>, FALSE)

Responses == {HelloResponse, BrokenResponse, NoBodyResponse, RateLimitedResponse,
              BadRequestResponse, UnauthorizedResponse, UnavailableResponse,
              ProviderErrorResponse, NetworkFailure}

\* The closure pushed by inference(): phase is where its execution stands
\* ("queued", "fetch", "errorBody", "stream", "resolved", "rejected"); value
\* is what the promise of inference() settled with; owner is the task whose
\* handleRunTask made the call, "direct" for a call without callbacks
NewUnit(apiKey, owner, userContent) ==
    [apiKey |-> apiKey, owner |-> owner, userContent |-> userContent,
     phase |-> "queued", response |-> NoResponse, rest |-> <<>>,
     dec |-> NewDecoder(owner # "direct"), value |-> <<>>,
     startT |-> -1, endT |-> -1, fetched |-> FALSE]

Executing(u) == u.phase \in {"fetch", "errorBody", "stream"}
Settled(u) == u.phase \in {"resolved", "rejected"}

\* A processQueue invocation that has not returned: pc "timer" (in the
\* setTimeout wait, due at wakeAt) or "request" (awaiting request() of unit)
Loop(pc, wakeAt, unit) == [pc |-> pc, wakeAt |-> wakeAt, unit |-> unit]

RemoveAt(q, i) == SubSeq(q, 1, i - 1) \o SubSeq(q, i + 1, Len(q))

\* the onThinking callback handleRunTask passes (msg "null" for null)
onThinking(w, u, msg) ==
    LET t == w.units[u].owner IN
    IF t = "direct" THEN w
    ELSE LET w1 == [w EXCEPT !.thinkingMessage = IF msg = "null" THEN "" ELSE msg] IN
         IF msg # "null" THEN emitThinking(w1, msg, agent_id(t), t) ELSE w1

\* the onChunk callback handleRunTask passes
onChunk(w, u, chunk) ==
    LET t == w.units[u].owner IN
    IF t = "direct" THEN w
    ELSE emitOutput([w EXCEPT !.streamingContent = chunk], chunk, agent_id(t), t)

\* the callbacks the decoder invoked, applied in order
RECURSIVE ApplyCalls(_, _, _)
ApplyCalls(w, u, calls) ==
    IF calls = <<>> THEN w
    ELSE LET c == Head(calls) IN
         ApplyCalls(IF c.cb = "onThinking" THEN onThinking(w, u, "null")
                    ELSE onChunk(w, u, c.arg),
                    u, Tail(calls))

\* toast.success / toast.error / toast.info shown by a page
Toast(page, text) == [page |-> page, text |-> text]

\* a task that is not in the Map (deleted) is shown as "absent"
Absent == [status |-> "absent", result |-> <<>>]
\* `Task with id ${id} not found`
TaskNotFound(id) == "Task with id not found"

\* (mutant) Task.update that keeps the stored result when the new one is empty
UpdateTaskKeepsResult(w, id, status, result) ==
    IF w.tasks[id] = Absent THEN w
    ELSE [w EXCEPT !.tasks[id] = [status |-> status,
                                  result |-> IF result = <<>> THEN @.result ELSE result],
                   !.moves = IF w.tasks[id].status # status
                             THEN @ \cup {<<id, w.tasks[id].status, status>>}
                             ELSE @]

\* updateTaskMutation.mutate -> base44.entities.Task.update(id, data): the
\* record merged with data; a task that is not in the Map is left alone
\* (update throws, onError shows the message once the caller has run on)
UpdateTask(w, id, status, result) ==
    IF w.tasks[id] = Absent THEN w
    ELSE [w EXCEPT !.tasks[id] = [status |-> status, result |-> result],
                   !.moves = IF w.tasks[id].status # status
                             THEN @ \cup {<<id, w.tasks[id].status, status>>}
                             ELSE @]

\* the toast left by a run's end: the one of handleRunTask, or after it the
\* one of updateTaskMutation's onError
EndToast(w, t, text) ==
    IF w.tasks[t] = Absent THEN Toast("Tasks", TaskNotFound(t)) ELSE Toast("Tasks", text)

\* `Error: ${errorMessage}`
ErrorResult(errorMessage) == <<"Error: ", errorMessage>>

ParentNotDoneError == "Parent task is not completed yet."

\* handleRunTask after `await runGroqInference(...)` returned result
RunSucceeded(w, t, result) ==
    LET w1 == UpdateTask(w, t, "done", result)
        w2 == emitOutput(w1, <<"Task completed: ", t>>, agent_id(t), t)
        w3 == emitAgentStatus(w2, agent_id(t), "idle") IN
    [w3 EXCEPT !.toast = EndToast(w, t, "Task completed successfully"),
               !.processingId = "null", !.streamingContent = <<>>,
               !.thinkingMessage = ""]

\* (mutant) the catch block without the 'idle' status
RunFailedNoIdle(w, t, errorMessage) ==
    LET w1 == UpdateTask(w, t, "failed", ErrorResult(errorMessage))
        w2 == emitError(w1, <<"Task failed: ", errorMessage>>, agent_id(t), t) IN
    [w2 EXCEPT !.toast = EndToast(w, t, errorMessage),
               !.processingId = "null", !.streamingContent = <<>>,
               !.thinkingMessage = ""]

\* handleRunTask's catch and finally blocks
RunFailed(w, t, errorMessage) ==
    LET w1 == UpdateTask(w, t, "failed", ErrorResult(errorMessage))
        w2 == emitError(w1, <<"Task failed: ", errorMessage>>, agent_id(t), t)
        w3 == emitAgentStatus(w2, agent_id(t), "idle") IN
    [w3 EXCEPT !.toast = EndToast(w, t, errorMessage),
               !.processingId = "null", !.streamingContent = <<>>,
               !.thinkingMessage = ""]

\* (mutant) the test on entry without the isProcessing flag
ProcessQueueReturnsNoFlag(w) == w.requestQueue = <<>>

\* processQueue's test on entry: `if (this.isProcessing || this.requestQueue.length === 0) return`
ProcessQueueReturns(w) == w.isProcessing \/ w.requestQueue = <<>>

\* (mutant) no wait between requests
RateLimitWaitNone(timeSinceLastRequest) == 0

\* the time processQueue waits before it dispatches
RateLimitWait(timeSinceLastRequest) ==
    IF timeSinceLastRequest < RATE_LIMIT_DELAY
    THEN RATE_LIMIT_DELAY - timeSinceLastRequest
    ELSE 0

\* (mutant) the unit put at the head of the queue
EnqueueFront(q, u) == <<u>> \o q

\* requestQueue.push(unit)
Enqueue(q, u) == Append(q, u)

\* requestQueue.shift(): the unit taken and the queue left
ShiftUnit(q) == Head(q)
ShiftRest(q) == Tail(q)

\* (mutant) the outcome handed to the run of the task in processingId
ResolvesToProcessing(w, u) ==
    IF w.processingId = "null" THEN w.units[u].owner ELSE w.processingId

\* the caller whose promise the closure of unit u resolves or rejects: the
\* resolve and reject of the Promise created by its own inference() call
ResolvesTo(w, u) == w.units[u].owner

\* (mutant) processQueue returning with the flag still set
LoopEndsFlagSet(w, i) == [w EXCEPT !.loops = RemoveAt(@, i)]

\* the end of processQueue: `this.isProcessing = false` after the while loop
LoopEnds(w, i) == [w EXCEPT !.isProcessing = FALSE, !.loops = RemoveAt(@, i)]

RECURSIVE LoopHead(_, _), Dispatch(_, _), StartRequest(_, _), Settle(_, _, _, _)

\* processQueue from the test of `while (this.requestQueue.length > 0)` up to
\* its next suspension, for the invocation loops[i]
LoopHead(w, i) ==
    IF w.requestQueue = <<>>
    THEN LoopEnds(w, i)
    ELSE LET wait == RateLimitWait(now - w.lastRequestTime) IN
         IF wait > 0
         THEN [w EXCEPT !.loops[i] = Loop("timer", now + wait, 0)]
         ELSE Dispatch(w, i)

\* `const request = this.requestQueue.shift(); await request()`
Dispatch(w, i) ==
    LET u == ShiftUnit(w.requestQueue) IN
    StartRequest([w EXCEPT !.requestQueue = ShiftRest(@),
                           !.loops[i] = Loop("request", 0, u)], u)

\* executeRequest up to `await fetch(...)`
StartRequest(w, u) ==
    LET w0 == [w EXCEPT !.units[u].startT = now]
        error == validateApiKey(w.units[u].apiKey) IN
    IF error # "ok" THEN Settle(w0, u, FALSE, error)
    ELSE LET w1 == onThinking(w0, u, "Connecting to Groq API...")
             w2 == onThinking(w1, u, "Sending request to AI agent...") IN
         [w2 EXCEPT !.units[u].phase = "fetch", !.units[u].fetched = TRUE]

\* (mutant) the closure without its try/catch: a failure leaves request()
\* rejected, so processQueue ends at `await request()` with isProcessing set
SettleNoCatch(w, u, ok, value) ==
    LET w1 == [w EXCEPT !.units[u].phase = IF ok THEN "resolved" ELSE "rejected",
                        !.units[u].value = value,
                        !.units[u].endT = now]
        awaiting == {i \in 1..Len(w1.loops) :
                        w1.loops[i].pc = "request" /\ w1.loops[i].unit = u}
        i == CHOOSE j \in awaiting : TRUE
        w2 == IF awaiting = {} THEN w1
              ELSE IF ok THEN LoopHead([w1 EXCEPT !.lastRequestTime = now], i)
              ELSE [w1 EXCEPT !.loops = RemoveAt(@, i)]
        t == ResolvesTo(w, u) IN
    IF t = "direct" THEN w2
    ELSE IF ok THEN RunSucceeded(w2, t, value)
    ELSE RunFailed(w2, t, value)

\* The unit's execution ends: the closure resolves or rejects the promise of
\* its inference() call; processQueue resumes after `await request()`, sets
\* lastRequestTime and goes to the loop test; handleRunTask resumes after
\* its await
Settle(w, u, ok, value) ==
    LET w1 == [w EXCEPT !.units[u].phase = IF ok THEN "resolved" ELSE "rejected",
                        !.units[u].value = value,
                        !.units[u].endT = now]
        awaiting == {i \in 1..Len(w1.loops) :
                        w1.loops[i].pc = "request" /\ w1.loops[i].unit = u}
        w2 == IF awaiting = {} THEN w1
              ELSE LoopHead([w1 EXCEPT !.lastRequestTime = now], CHOOSE i \in awaiting : TRUE)
        t == ResolvesTo(w, u) IN
    IF t = "direct" THEN w2
    ELSE IF ok THEN RunSucceeded(w2, t, value)
    ELSE RunFailed(w2, t, value)

\* processQueue()
processQueue(w) ==
    IF ProcessQueueReturns(w) THEN w
    ELSE LoopHead([w EXCEPT !.isProcessing = TRUE,
                            !.loops = Append(@, Loop("start", 0, 0))],
                  Len(w.loops) + 1)

\* inference(apiKey, ...): push the closure, call processQueue
inference(w, apiKey, owner, userContent) ==
    LET u == Len(w.units) + 1 IN
    processQueue([w EXCEPT !.units = Append(@, NewUnit(apiKey, owner, userContent)),
                           !.requestQueue = Enqueue(@, u)])

(***************************************************************************)
(* Steps of the client: each is one task of the event loop, run up to the  *)
(* point where every promise chain it woke is suspended again              *)
(***************************************************************************)
DirectKeys == {ValidKey, ShortKey, BadPrefixKey, EmptyKey}

\* groqClient.inference(apiKey, model, messages) called without callbacks;
\* limit bounds the number of calls explored
Inference(apiKey, limit) ==
    /\ Len(units) < limit
    /\ SetWorld(inference(World, apiKey, "direct", <<>>))
    /\ UNCHANGED <<now, groq_api_key, listeners, subscribed, decoderVars, storeVars, formVars>>

\* the setTimeout of the rate-limit wait fires
TimerFires(i) ==
    /\ i \in 1..Len(loops)
    /\ loops[i].pc = "timer"
    /\ now >= loops[i].wakeAt
    /\ SetWorld(Dispatch(World, i))
    /\ UNCHANGED <<now, groq_api_key, listeners, subscribed, decoderVars, storeVars, formVars>>

\* fetch settles for unit u with response r (makeRequest, then executeRequest
\* up to the first reader.read())
FetchSettles(u, r) ==
    /\ u \in 1..Len(units)
    /\ units[u].phase = "fetch"
    /\ LET w == [World EXCEPT !.units[u].response = r] IN
       SetWorld(
         IF r.kind = "network" THEN Settle(w, u, FALSE, NetworkError)
         ELSE IF r.kind = "http" THEN [w EXCEPT !.units[u].phase = "errorBody"]
         ELSE LET w1 == onThinking(w, u, "Agent is thinking...") IN
              IF r.kind = "nobody" THEN Settle(w1, u, FALSE, NoBodyError)
              ELSE [w1 EXCEPT !.units[u].phase = "stream",
                              !.units[u].rest = r.chunks])
    /\ UNCHANGED <<now, groq_api_key, listeners, subscribed, decoderVars, storeVars, formVars>>

\* handleApiError: response.json() settles, the classified error is thrown
ErrorBodyRead(u) ==
    /\ u \in 1..Len(units)
    /\ units[u].phase = "errorBody"
    /\ SetWorld(Settle(World, u, FALSE,
                       handleApiError(units[u].response.status,
                                      units[u].response.hasMessage)))
    /\ UNCHANGED <<now, groq_api_key, listeners, subscribed, decoderVars, storeVars, formVars>>

\* reader.read() settles for unit u: the next chunk, the end of the body, or
\* an error of the connection
ReadSettles(u) ==
    /\ u \in 1..Len(units)
    /\ units[u].phase = "stream"
    /\ LET unit == units[u] IN
       SetWorld(
         IF unit.rest = <<>>
         THEN IF unit.response.breaks THEN Settle(World, u, FALSE, StreamError)
              ELSE Settle(World, u, TRUE, unit.dec.fullContent)
         ELSE LET d == ProcessChunk(unit.dec, Head(unit.rest))
                  w1 == ApplyCalls([World EXCEPT !.units[u].dec = d,
                                                 !.units[u].rest = Tail(@)],
                                   u, SubSeq(d.calls, Len(unit.dec.calls) + 1, Len(d.calls))) IN
              IF d.returned THEN Settle(w1, u, TRUE, d.fullContent) ELSE w1)
    /\ UNCHANGED <<now, groq_api_key, listeners, subscribed, decoderVars, storeVars, formVars>>

\* time passes; limit bounds the number of steps of the clock
Tick(limit) ==
    /\ now < Epoch + limit * TickMs
    /\ now' = now + TickMs
    /\ UNCHANGED <<requestQueue, isProcessing, lastRequestTime, loops, units,
                   pageVars, busVars, decoderVars, storeVars, formVars>>

(***************************************************************************)
(* Steps of the Tasks page and of the Settings page                        *)
(***************************************************************************)
\* localStorage.getItem('groq_api_key') ?? ''
StoredKey == IF groq_api_key = {} THEN <<>> ELSE CHOOSE k \in groq_api_key : TRUE

\* (mutant) the description alone, without the parent's result
UserContentNoContext(t) == <<description(t)>>

\* the user content handleRunTask builds: the parent's result as context
\* before the task's description, the description alone without a parent
UserContent(t) ==
    IF parent_task_id(t) # "none" /\ tasksView[parent_task_id(t)] # Absent
    THEN <<"[CONTEXT FROM PREVIOUS TASK ", parent_task_id(t), "]:",
           tasksView[parent_task_id(t)].result,
           "[CURRENT TASK INSTRUCTIONS]:", description(t)>>
    ELSE <<description(t)>>

\* `const isProcessing = processingId === task.id || task.status === 'in_progress'`,
\* which disables the Run button of the task
RunDisabled(t) == processingId = t \/ tasksView[t].status = "in_progress"

\* (mutant) a run stopped by a failed parent only
ParentBlocksOnlyFailed(t) ==
    /\ parent_task_id(t) # "none"
    /\ tasksView[parent_task_id(t)] # Absent
    /\ tasksView[parent_task_id(t)].status = "failed"

\* the chained task's parent is in the list and is not done: handleRunTask throws
ParentBlocks(t) ==
    /\ parent_task_id(t) # "none"
    /\ tasksView[parent_task_id(t)] # Absent
    /\ tasksView[parent_task_id(t)].status # "done"

\* (mutant) every task taken to have its agent in the list
AgentFoundAlways(t) == TRUE

\* `agents?.find(a => a.id === task.agent_id)` finds the task's agent
AgentFound(t) == agent_id(t) \in Agents

\* (mutant) the run started without the status update
BeginRunNoUpdate(w, t) == w

\* `updateTaskMutation.mutate({ id: task.id, data: { status: 'in_progress', result: '' } })`
BeginRun(w, t) == UpdateTask(w, t, "in_progress", <<>>)

\* Number of handleRunTask calls explored that pass the pre-checks
MaxRuns == 2

\* the handleRunTask calls so far that passed the pre-checks (each published
\* one 'running' status)
RunsStarted ==
    Cardinality({i \in 1..Len(emitted) :
                    /\ emitted[i].type = "agent_status"
                    /\ emitted[i].content = <<"Agent ", "running">>})

\* handleRunTask(task) up to its first suspension; the Run button is
\* disabled while the task is shown as processing
HandleRunTask(t, limit) ==
    /\ Len(units) < limit
    /\ RunsStarted < MaxRuns
    /\ tasksView[t] # Absent
    /\ ~RunDisabled(t)
    /\ IF ~validateGroqApiKey(StoredKey)
       THEN SetWorld([World EXCEPT !.toast = Toast("Tasks", validateGroqApiKeyError(StoredKey))])
       ELSE IF ~AgentFound(t)
       THEN SetWorld([World EXCEPT !.toast = Toast("Tasks", "Assigned agent not found")])
       ELSE LET w1 == [World EXCEPT !.processingId = t,
                                   !.streamingContent = <<>>,
                                   !.thinkingMessage = "Initializing agent..."]
                w2 == BeginRun(w1, t)
                w3 == emitAgentStatus(w2, agent_id(t), "running")
                w4 == emitThinking(w3, "Task execution started", agent_id(t), t)
                p == parent_task_id(t) IN
            IF ParentBlocks(t)
            THEN SetWorld(RunFailed(w4, t, ParentNotDoneError))
            ELSE SetWorld(inference(
                     IF p # "none" /\ tasksView[p] # Absent
                     THEN [w4 EXCEPT !.thinkingMessage = "Loading context from parent task..."]
                     ELSE w4,
                     StoredKey, t, UserContent(t)))
    /\ UNCHANGED <<now, groq_api_key, listeners, subscribed, decoderVars, storeVars, formVars>>

\* Tasks that the user deletes in the runs explored
Deletable == {"T1"}

\* deleteTaskMutation.mutate(task.id): Task.delete, then the list is fetched
\* again and the toast shown
DeleteTask(t) ==
    /\ tasksView[t] # Absent
    /\ SetWorld([World EXCEPT !.tasks[t] = Absent,
                              !.toast = Toast("Tasks", "Task deleted successfully")])
    /\ UNCHANGED <<now, groq_api_key, listeners, subscribed, decoderVars, storeVars, formVars>>

\* Settings.handleSave with apiKey typed in the input
HandleSave(apiKey) ==
    /\ IF ~validateGroqApiKey(apiKey)
       THEN /\ toast' = Toast("Settings", validateGroqApiKeyError(apiKey))
            /\ UNCHANGED groq_api_key
       ELSE /\ groq_api_key' = {Trim(apiKey)}
            /\ toast' = Toast("Settings", "API Key saved successfully")
    /\ UNCHANGED <<tasks, tasksView, processingId, streamingContent,
                   thinkingMessage, moves, clientVars, busVars, decoderVars, storeVars, formVars>>

\* Settings.handleClear
HandleClear ==
    /\ groq_api_key # {}
    /\ groq_api_key' = {}
    /\ toast' = Toast("Settings", "API Key cleared")
    /\ UNCHANGED <<tasks, tasksView, processingId, streamingContent,
                   thinkingMessage, moves, clientVars, busVars, decoderVars, storeVars, formVars>>

(***************************************************************************)
(* Base44Client: the agent and task Maps and their copy in localStorage.   *)
(* A record is its id and the revision of its other fields; a newer record *)
(* (a later created_date) has a larger id; a revised record serialises to  *)
(* a longer text.                                                          *)
(***************************************************************************)
Collections == {"agents", "tasks"}
StorageKey(c) == IF c = "agents" THEN "base44_agents" ELSE "base44_tasks"
Entity(id, rev) == [id |-> id, rev |-> rev]

\* `agentsData.length > 100`, `sorted.slice(0, -50)`
EvictAbove == 100
KeepNewest == 50

\* localStorage.getItem(key) === null
NoItem == [present |-> FALSE, text |-> {}]

\* JSON.stringify(Array.from(map.values())) and JSON.parse of that text
Stringify(records) == {<<"json", e.id, e.rev>> : e \in records}
Parse(text) == {Entity(j[2], j[3]) : j \in text}

\* the room an item takes in localStorage
SizeOf(text) == Cardinality(text) + Cardinality({j \in text : j[3] > 0})
Used(ls) == SizeOf(ls["base44_agents"].text) + SizeOf(ls["base44_tasks"].text)

\* the Maps a new Base44Client holds: loadFromStorage
loadFromStorage(ls) ==
    [c \in Collections |->
        IF ls[StorageKey(c)].present THEN Parse(ls[StorageKey(c)].text) ELSE {}]

\* localStorage.setItem(key, text) throws QuotaExceededError
SetItemThrows(ls, key, text) ==
    Used([ls EXCEPT ![key] = [present |-> TRUE, text |-> text]]) > quota

\* (mutant) the items written whatever the number of records
WritesItemAlways(records) == TRUE

\* `if (agentsData.length > 0)`: the item is written only for a Map that
\* holds records
WritesItem(records) == records # {}

\* the try block of saveToStorage: the items written, and whether setItem threw
WriteItems(b, ls) ==
    LET agentsText == Stringify(b.agents)
        tasksText == Stringify(b.tasks)
        agentsThrows == WritesItem(b.agents) /\ SetItemThrows(ls, "base44_agents", agentsText)
        ls1 == IF WritesItem(b.agents) /\ ~agentsThrows
               THEN [ls EXCEPT !["base44_agents"] = [present |-> TRUE, text |-> agentsText]]
               ELSE ls
        tasksThrows == WritesItem(b.tasks) /\ SetItemThrows(ls1, "base44_tasks", tasksText)
        ls2 == IF WritesItem(b.tasks) /\ ~tasksThrows
               THEN [ls1 EXCEPT !["base44_tasks"] = [present |-> TRUE, text |-> tasksText]]
               ELSE ls1 IN
    IF agentsThrows THEN [threw |-> TRUE, ls |-> ls]
    ELSE IF tasksThrows THEN [threw |-> TRUE, ls |-> ls1]
    ELSE [threw |-> FALSE, ls |-> ls2]

\* the catch block on QuotaExceededError: of a Map with more than 100
\* records only the newest 50 are kept
Evict(records) ==
    IF Cardinality(records) > EvictAbove
    THEN {e \in records : Cardinality({f \in records : f.id > e.id}) < KeepNewest}
    ELSE records

\* Depth of nested calls at which the engine's call stack is exhausted
StackDepth == 3

\* One call of saveToStorage at nesting depth: it resolves, or it evicts and
\* calls itself (`this.saveToStorage().then(resolve).catch(reject)`); the
\* nested call runs inside the executor of the outer promise, before
\* anything else can run.  Only the exhaustion of the call stack (a
\* RangeError, caught as innerError) ends a chain of calls that keep failing.
saveToStorage(b, ls, depth) ==
    LET r == WriteItems(b, ls) IN
    /\ localStorage' = r.ls
    /\ IF ~r.threw
       THEN /\ base44' = b
            /\ saveDepth' = 0
            /\ saveOutcome' = "resolved"
       ELSE IF depth >= StackDepth
       THEN /\ base44' = b
            /\ saveDepth' = 0
            /\ saveOutcome' = "rejected"
       ELSE /\ base44' = [c \in Collections |-> Evict(b[c])]
            /\ saveDepth' = depth + 1
            /\ saveOutcome' = "pending"

\* Number of entity operations explored
MaxOps == 3

NewestId(records) == IF records = {} THEN 0
                     ELSE CHOOSE i \in {e.id : e \in records} : \A e \in records : e.id <= i
OldestId(records) == IF records = {} THEN 0
                     ELSE CHOOSE i \in {e.id : e \in records} : \A e \in records : e.id >= i
\* the record an operation is tried with: the oldest or the newest one
Ages == {"oldest", "newest"}
Pick(c, age) == IF age = "oldest" THEN OldestId(base44[c]) ELSE NewestId(base44[c])

\* entities.Agent.create / entities.Task.create
EntityCreate(c) ==
    /\ saveDepth = 0
    /\ ops < MaxOps
    /\ ops' = ops + 1
    /\ saveToStorage([base44 EXCEPT ![c] = @ \cup {Entity(NewestId(@) + 1, 0)}],
                     localStorage, 0)
    /\ UNCHANGED <<quota, decoderVars, busVars, clientVars, pageVars, formVars>>

\* entities.Agent.update / entities.Task.update of a record of the Map
EntityUpdate(c, age) ==
    /\ saveDepth = 0
    /\ ops < MaxOps
    /\ base44[c] # {}
    /\ ops' = ops + 1
    /\ saveToStorage([base44 EXCEPT ![c] = {IF e.id = Pick(c, age) THEN Entity(e.id, 1) ELSE e : e \in @}],
                     localStorage, 0)
    /\ UNCHANGED <<quota, decoderVars, busVars, clientVars, pageVars, formVars>>

\* entities.Agent.delete / entities.Task.delete
EntityDelete(c, age) ==
    /\ saveDepth = 0
    /\ ops < MaxOps
    /\ base44[c] # {}
    /\ ops' = ops + 1
    /\ saveToStorage([base44 EXCEPT ![c] = {e \in @ : e.id # Pick(c, age)}], localStorage, 0)
    /\ UNCHANGED <<quota, decoderVars, busVars, clientVars, pageVars, formVars>>

\* the nested saveToStorage call of the catch block
SaveRetry ==
    /\ saveDepth > 0
    /\ saveToStorage(base44, localStorage, saveDepth)
    /\ UNCHANGED <<quota, ops, decoderVars, busVars, clientVars, pageVars, formVars>>

\* the page is loaded again: `export const base44 = new Base44Client()`
Reload ==
    /\ saveDepth = 0
    /\ base44' = loadFromStorage(localStorage)
    /\ UNCHANGED <<localStorage, quota, saveDepth, saveOutcome, ops,
                   decoderVars, busVars, clientVars, pageVars, formVars>>

InitStoreIdle ==
    /\ localStorage = [k \in {"base44_agents", "base44_tasks"} |-> NoItem]
    /\ base44 = loadFromStorage(localStorage)
    /\ quota = 0
    /\ saveDepth = 0
    /\ saveOutcome = "none"
    /\ ops = 0

(***************************************************************************)
(* Agents page: the create / edit dialog (handleSubmit and the effect that *)
(* fills the form from the stored agent)                                   *)
(***************************************************************************)
\* the texts of the entities and of the section headers
LT == <<"&","l","t",";">>
GT == <<"&","g","t",";">>
QUOT == <<"&","q","u","o","t",";">>
APOS == <<"&","#","x","2","7",";">>
AMP == <<"&","a","m","p",";">>
FunctionsHeader == <<"A","V","A","I","L","A","B","L","E"," ","F","U","N","C","T","I","O","N","S",":">>
CapabilitiesHeader == <<"C","A","P","A","B","I","L","I","T","I","E","S",":">>
FunctionsSeparator == <<Newline, Newline>> \o FunctionsHeader
CapabilitiesSeparator == <<Newline, Newline>> \o CapabilitiesHeader

\* the replacement sanitizeInput makes for one character
HtmlEntity(ch) ==
    CASE ch = "<" -> LT
      [] ch = ">" -> GT
      [] ch = "\"" -> QUOT
      [] ch = "'" -> APOS
      [] ch = "&" -> AMP
      [] OTHER -> <<ch>>

RECURSIVE Replace(_)
Replace(s) == IF s = <<>> THEN <<>> ELSE HtmlEntity(Head(s)) \o Replace(Tail(s))

\* (mutant) sanitizeInput that leaves the text of an entity alone
sanitizeInputTrimOnly(input) == Trim(input)

\* sanitizeInput(input): input.trim().replace(/[<>"'&]/g, entity)
sanitizeInput(input) == Replace(Trim(input))

\* String.prototype.indexOf, counted from 1; 0 when pat does not occur
IndexOf(s, pat) ==
    LET hits == {i \in 1..(Len(s) - Len(pat) + 1) : SubSeq(s, i, i + Len(pat) - 1) = pat} IN
    IF hits = {} THEN 0 ELSE CHOOSE i \in hits : \A j \in hits : i <= j

\* the first index of s from `from` on whose character is not in chars;
\* Len(s) + 1 when there is none
SkipWhile(s, from, chars) ==
    LET rest == {i \in from..Len(s) : s[i] \notin chars} IN
    IF rest = {} THEN Len(s) + 1 ELSE CHOOSE i \in rest : \A j \in rest : i <= j

\* the first index of s from `from` on whose character is a newline;
\* Len(s) + 1 when there is none
LineEnd(s, from) ==
    LET ends == {i \in from..Len(s) : s[i] = Newline} IN
    IF ends = {} THEN Len(s) + 1 ELSE CHOOSE i \in ends : \A j \in ends : i <= j

\* system_prompt.split('\n\nAVAILABLE FUNCTIONS:')[0] || ''
BasePart(prompt) ==
    LET at == IndexOf(prompt, FunctionsSeparator) IN
    IF at = 0 THEN prompt ELSE SubSeq(prompt, 1, at - 1)

\* system_prompt.match(/AVAILABLE FUNCTIONS:\s*([^\n]+)/): group 1 trimmed,
\* '' without a match
FunctionsMatch(prompt) ==
    LET at == IndexOf(prompt, FunctionsHeader)
        from == SkipWhile(prompt, at + Len(FunctionsHeader), WhiteSpace) IN
    IF at = 0 \/ from > Len(prompt) THEN <<>>
    ELSE Trim(SubSeq(prompt, from, LineEnd(prompt, from) - 1))

\* system_prompt.match(/CAPABILITIES:\s*([\s\S]*?)$/): group 1 trimmed, ''
\* without a match
CapabilitiesMatch(prompt) ==
    LET at == IndexOf(prompt, CapabilitiesHeader) IN
    IF at = 0 THEN <<>>
    ELSE Trim(SubSeq(prompt, at + Len(CapabilitiesHeader), Len(prompt)))

\* the limits of validateAgentData
MaxNameLength == 100
MaxRoleLength == 50
MaxPromptLength == 5000

\* validateAgentData(data).isValid (the model is always selected)
validateAgentData(data) ==
    /\ Trim(data.name) # <<>> /\ Len(data.name) <= MaxNameLength
    /\ Trim(data.role) # <<>> /\ Len(data.role) <= MaxRoleLength
    /\ Trim(data.system_prompt) # <<>> /\ Len(data.system_prompt) <= MaxPromptLength

\* no agent stored, no agent edited
NoAgent == [name |-> <<>>, role |-> <<>>, system_prompt |-> <<>>]
\* the form as setFormData resets it
EmptyForm == [name |-> <<>>, role |-> <<>>, functions |-> <<>>,
              capabilities |-> <<>>, system_prompt |-> <<>>]

\* the record handleSubmit sends to Agent.create or Agent.update
AgentData(form) ==
    LET functions == sanitizeInput(Trim(form.functions))
        capabilities == sanitizeInput(Trim(form.capabilities)) IN
    [name |-> sanitizeInput(Trim(form.name)),
     role |-> sanitizeInput(Trim(form.role)),
     system_prompt |->
        sanitizeInput(Trim(form.system_prompt))
        \o (IF functions # <<>> THEN FunctionsSeparator \o <<Space>> \o functions ELSE <<>>)
        \o (IF capabilities # <<>> THEN CapabilitiesSeparator \o <<Space>> \o capabilities
            ELSE <<>>)]

\* the fields the effect puts in the form when the dialog opens for an agent
FormOf(a) ==
    [name |-> a.name, role |-> a.role,
     functions |-> FunctionsMatch(a.system_prompt),
     capabilities |-> CapabilitiesMatch(a.system_prompt),
     system_prompt |-> Trim(BasePart(a.system_prompt))]

\* Number of handleSubmit calls explored
MaxSaves == 3

\* handleSubmit: the form is sanitized and validated, the agent created or
\* updated; on success the dialog closes and the form is reset
HandleSubmit ==
    /\ saves < MaxSaves
    /\ formData # EmptyForm
    /\ saves' = saves + 1
    /\ LET data == AgentData(formData)
           checked == [name |-> data.name, role |-> data.role,
                       system_prompt |-> sanitizeInput(Trim(formData.system_prompt))] IN
       IF ~validateAgentData(checked)
       THEN UNCHANGED <<agent, editingAgent, formData>>
       ELSE /\ agent' = data
            /\ editingAgent' = NoAgent
            /\ formData' = EmptyForm
    /\ UNCHANGED <<decoderVars, busVars, clientVars, pageVars, storeVars>>

\* the Edit button of the agent's card: setEditingAgent(agent), the dialog
\* opens and the effect fills the form
OpenEdit ==
    /\ agent # NoAgent
    /\ editingAgent = NoAgent
    /\ editingAgent' = agent
    /\ formData' = FormOf(agent)
    /\ UNCHANGED <<agent, saves, decoderVars, busVars, clientVars, pageVars, storeVars>>

InitFormIdle ==
    /\ agent = NoAgent
    /\ editingAgent = NoAgent
    /\ formData = EmptyForm
    /\ saves = 0

(***************************************************************************)
(* Initial states and specifications                                       *)
(***************************************************************************)
InitClient ==
    /\ now = Epoch
    /\ requestQueue = <<>>
    /\ isProcessing = FALSE
    /\ lastRequestTime = 0
    /\ loops = <<>>
    /\ units = <<>>

InitPage ==
    /\ groq_api_key = {}
    /\ tasks = [t \in TaskIds |-> [status |-> "todo", result |-> <<>>]]
    /\ tasksView = tasks
    /\ processingId = "null"
    /\ streamingContent = <<>>
    /\ thinkingMessage = ""
    /\ toast = Toast("none", "")
    /\ moves = {}

InitDecoderIdle ==
    /\ stream = <<>>
    /\ reader = <<>>
    /\ dec = NewDecoder(TRUE)
    /\ decPc = "returned"
    /\ aligned = TRUE

\* GroqAPIClient under direct inference() calls
Init == InitClient /\ InitPage /\ InitBusIdle /\ InitDecoderIdle /\ InitStoreIdle /\ InitFormIdle

Next ==
    \/ \E k \in DirectKeys : Inference(k, MaxUnits)
    \/ \E i \in 1..Len(loops) : TimerFires(i)
    \/ \E u \in 1..Len(units), r \in Responses : FetchSettles(u, r)
    \/ \E u \in 1..Len(units) : ErrorBodyRead(u)
    \/ \E u \in 1..Len(units) : ReadSettles(u)
    \/ Tick(MaxTicks)

(***************************************************************************)
(* The decoder run on its own: a response body read chunk by chunk         *)
(***************************************************************************)
InitReader ==
    /\ stream \in Streams
    /\ reader = stream
    /\ dec = NewDecoder(TRUE)
    /\ decPc = "reading"
    /\ aligned = TRUE

\* reader.read() resolves with a chunk of n characters
ReadChunk(n) ==
    /\ decPc = "reading"
    /\ n \in 1..Len(reader)
    /\ LET d == ProcessChunk(dec, SubSeq(reader, 1, n)) IN
        /\ dec' = d
        /\ decPc' = IF d.returned THEN "returned" ELSE "reading"
    /\ reader' = SubSeq(reader, n + 1, Len(reader))
    /\ aligned' = (aligned /\ reader[n] = Newline)
    /\ UNCHANGED <<stream, busVars, clientVars, pageVars, storeVars, formVars>>

\* reader.read() resolves with done = true: break, return fullContent
ReadDone ==
    /\ decPc = "reading"
    /\ reader = <<>>
    /\ dec' = [dec EXCEPT !.returned = TRUE]
    /\ decPc' = "returned"
    /\ UNCHANGED <<stream, reader, aligned, busVars, clientVars, pageVars, storeVars, formVars>>

\* reader.read() rejects (the connection breaks): the error leaves the
\* function through the finally block
ReadFails ==
    /\ decPc = "reading"
    /\ reader # <<>>
    /\ decPc' = "threw"
    /\ UNCHANGED <<stream, reader, dec, aligned, busVars, clientVars, pageVars, storeVars, formVars>>

NextDecoder ==
    \/ \E n \in 1..Len(reader) : ReadChunk(n)
    \/ ReadDone
    \/ ReadFails

vars == <<decoderVars, busVars, clientVars, pageVars, storeVars, formVars>>

Spec == Init /\ [][Next]_vars

\* The client with every pending timer, fetch and read going on: the clock
\* runs on while a rate-limit wait is pending
TimerPending == \E i \in 1..Len(loops) : loops[i].pc = "timer" /\ now < loops[i].wakeAt

TimerWait ==
    /\ TimerPending
    /\ now' = now + TickMs
    /\ UNCHANGED <<requestQueue, isProcessing, lastRequestTime, loops, units,
                   pageVars, busVars, decoderVars, storeVars, formVars>>

LiveKeys == {ValidKey, ShortKey}
LiveResponses == {HelloResponse, BrokenResponse, RateLimitedResponse, NetworkFailure}
\* Number of inference() calls and of idle clock steps explored
LiveUnits == 3
LiveTicks == 2

NextLive ==
    \/ \E k \in LiveKeys : Inference(k, LiveUnits)
    \/ \E i \in 1..Len(loops) : TimerFires(i)
    \/ \E u \in 1..Len(units), r \in LiveResponses : FetchSettles(u, r)
    \/ \E u \in 1..Len(units) : ErrorBodyRead(u)
    \/ \E u \in 1..Len(units) : ReadSettles(u)
    \/ Tick(LiveTicks)
    \/ TimerWait

\* The event loop's timers: the clock reaches the time a setTimeout is due
\* at, and a timer that is due fires
Fairness ==
    /\ WF_vars(TimerWait)
    /\ WF_vars(\E i \in 1..Len(loops) : TimerFires(i))

SpecLive == Init /\ [][NextLive]_vars /\ Fairness

\* The Tasks page driving the client, next to direct inference() calls
PageResponses == {HelloResponse, HiResponse, RateLimitedResponse}
SaveInputs == {ValidKey, PaddedShortKey, BadPrefixKey}
PageDirectKeys == {ShortKey}
\* Number of inference() calls and of clock steps explored with the page
PageUnits == 2
PageTicks == 2

NextTasks ==
    \/ \E t \in TaskIds : HandleRunTask(t, PageUnits)
    \/ \E t \in Deletable : DeleteTask(t)
    \/ \E k \in SaveInputs : HandleSave(k)
    \/ HandleClear
    \/ \E k \in PageDirectKeys : Inference(k, PageUnits)
    \/ \E i \in 1..Len(loops) : TimerFires(i)
    \/ \E u \in 1..Len(units), r \in PageResponses : FetchSettles(u, r)
    \/ \E u \in 1..Len(units) : ErrorBodyRead(u)
    \/ \E u \in 1..Len(units) : ReadSettles(u)
    \/ Tick(PageTicks)

SpecTasks == Init /\ [][NextTasks]_vars

InitDecoder == InitReader /\ InitBusIdle /\ InitClient /\ InitPage /\ InitStoreIdle /\ InitFormIdle
SpecDecoder == InitDecoder /\ [][NextDecoder]_vars

InitBus == InitBusIdle /\ InitDecoderIdle /\ InitClient /\ InitPage /\ InitStoreIdle /\ InitFormIdle
SpecBus == InitBus /\ [][NextBus]_vars

\* Base44Client on its own: entity operations and page loads
\* The items a page load can find: nothing, one record, or one record more
\* than the eviction threshold
StoredCounts == {0, 1, EvictAbove + 1}
Item(n) == IF n = 0 THEN NoItem
           ELSE [present |-> TRUE, text |-> Stringify({Entity(i, 0) : i \in 1..n})]
\* localStorage is full, or has room for everything the model writes
Unlimited == 10 * EvictAbove

InitStore ==
    /\ \E na \in StoredCounts, nt \in StoredCounts :
          localStorage = [k \in {"base44_agents", "base44_tasks"} |->
                             IF k = "base44_agents" THEN Item(na) ELSE Item(nt)]
    /\ base44 = loadFromStorage(localStorage)
    /\ quota \in {Used(localStorage), Unlimited}
    /\ saveDepth = 0
    /\ saveOutcome = "none"
    /\ ops = 0
    /\ InitClient /\ InitPage /\ InitBusIdle /\ InitDecoderIdle /\ InitFormIdle

NextStore ==
    \/ \E c \in Collections : EntityCreate(c)
    \/ \E c \in Collections, age \in Ages : EntityUpdate(c, age)
    \/ \E c \in Collections, age \in Ages : EntityDelete(c, age)
    \/ SaveRetry
    \/ Reload

SpecStore == InitStore /\ [][NextStore]_vars

\* The agent dialog on its own: an agent is created from what the user
\* typed, then opened for editing and saved
FormNames == {<<>>, <<"B","o","t">>, <<"R","&","D">>}
FormRoles == {<<"d","e","v">>, <<" ","q","a"," ">>}
FormPrompts == {<<"P","l","a","n">>, <<"B","e"," ","<","b",">">>}
FormFunctions == {<<>>, <<"s","e","a","r","c","h">>}
FormCapabilities == {<<>>, <<"m","a","t","h">>}

InitAgents ==
    /\ agent = NoAgent
    /\ editingAgent = NoAgent
    /\ formData \in [name : FormNames, role : FormRoles, functions : FormFunctions,
                     capabilities : FormCapabilities, system_prompt : FormPrompts]
    /\ saves = 0
    /\ InitClient /\ InitPage /\ InitBusIdle /\ InitDecoderIdle /\ InitStoreIdle

NextAgents ==
    \/ HandleSubmit
    \/ OpenEdit

SpecAgents == InitAgents /\ [][NextAgents]_vars

\* The decoder's outcome on a text delivered as one chunk
DecodeWhole(text) == ProcessChunk(NewDecoder(TRUE), text)

(***************************************************************************)
(* Properties                                                              *)
(***************************************************************************)
UnitIds == 1..Len(units)
Min(a, b) == IF a < b THEN a ELSE b

\* The credentials the specification calls malformed: empty, without the
\* prefix, or shorter than the minimum length
Malformed(apiKey) ==
    \/ apiKey = <<>>
    \/ ~StartsWith(apiKey, KeyPrefix)
    \/ Len(apiKey) < MinKeyLength

\* C1: at most one queued unit executes at any time and at most one
\* processQueue drain loop is active; an inference() call made while
\* isProcessing is set dispatches nothing.
C1_SingleFlightState ==
    /\ Cardinality({u \in UnitIds : Executing(units[u])}) <= 1
    /\ Len(loops) <= 1
    /\ isProcessing <=> Len(loops) = 1

C1_BusySubmitDispatchesNothing ==
    (isProcessing /\ Len(units') = Len(units) + 1) =>
        /\ loops' = loops
        /\ units'[Len(units')].phase = "queued"
        /\ requestQueue' = Append(requestQueue, Len(units'))
        /\ \A u \in UnitIds : units'[u] = units[u]

C1_SingleFlight == []C1_SingleFlightState /\ [][C1_BusySubmitDispatchesNothing]_vars

\* C1 witness: a unit is executing while another one waits in the queue
C1_Witness ==
    /\ \E u \in UnitIds : Executing(units[u])
    /\ requestQueue # <<>>
    /\ isProcessing

\* C2: units start executing in the order they were submitted: when a unit
\* has started, every unit submitted before it has started and ended.
C2_FifoOrder ==
    \A a, b \in UnitIds :
        (a < b /\ units[b].phase # "queued") => Settled(units[a])

\* C2 witness: three units, the later ones submitted while the first was
\* executing or the loop was waiting, have all been executed
C2_Witness ==
    /\ Len(units) = 3
    /\ \A u \in UnitIds : Settled(units[u])
    /\ units[1].endT > units[1].startT
    /\ units[3].startT > units[2].startT

\* C3: every unit after the first starts at least RATE_LIMIT_DELAY after
\* the unit dispatched before it completed, across drain loops too; the
\* third of three units starts at least twice the delay after the first.
C3_MinInterval ==
    /\ \A b \in UnitIds :
        (b > 1 /\ units[b].startT >= 0) =>
            /\ units[b - 1].endT >= 0
            /\ units[b].startT >= units[b - 1].endT + RATE_LIMIT_DELAY
    /\ (Len(units) >= 3 /\ units[3].startT >= 0) =>
            units[3].startT >= units[1].startT + 2 * RATE_LIMIT_DELAY

\* C3 witness: the third unit started exactly two delays after the first
C3_Witness ==
    /\ Len(units) >= 3
    /\ units[3].startT = units[1].startT + 2 * RATE_LIMIT_DELAY

\* what a unit's own credential and own response make of its promise
OwnOutcome(unit) ==
    IF Malformed(unit.apiKey)
    THEN unit.phase = "rejected" /\ unit.value \in InvalidCredentialErrors
    ELSE CASE unit.response.kind = "network" ->
                unit.phase = "rejected" /\ unit.value = NetworkError
           [] unit.response.kind = "http" ->
                unit.phase = "rejected" /\
                unit.value \in {RateLimitError, UnauthorizedError, UnavailableError,
                                ProviderMessage, StatusLine(unit.response.status)}
           [] unit.response.kind = "nobody" ->
                unit.phase = "rejected" /\ unit.value = NoBodyError
           [] unit.response.kind = "ok" /\ unit.response.breaks ->
                unit.phase = "rejected" /\ unit.value = StreamError
           [] unit.response.kind = "ok" /\ ~unit.response.breaks ->
                unit.phase = "resolved" /\ unit.value \in {Hello, Hi}
           [] OTHER -> FALSE

\* C4: a failing unit rejects only the promise of its own inference() call:
\* every settled unit has the outcome of its own credential and response,
\* and the drain loop goes on: while units are queued a loop is in its wait
\* or awaits an executing unit, and isProcessing is set only with a loop.
C4_FailureIsolated ==
    /\ \A u \in UnitIds : Settled(units[u]) => OwnOutcome(units[u])
    /\ requestQueue # <<>> => Len(loops) = 1
    /\ isProcessing => Len(loops) = 1
    /\ \A i \in 1..Len(loops) :
        \/ loops[i].pc = "timer"
        \/ loops[i].pc = "request" /\ Executing(units[loops[i].unit])

\* C4 witness: a unit failed and a unit queued behind it resolved
C4_Witness ==
    \E a, b \in UnitIds :
        /\ a < b
        /\ units[a].phase = "rejected"
        /\ units[b].phase = "resolved"

\* C5: the decoded text and the onDelta values depend only on the
\* concatenated response text, not on how it is cut into chunks.
C5_ChunkingIndependent ==
    decPc = "returned" =>
        /\ dec.fullContent = DecodeWhole(stream).fullContent
        /\ dec.calls = DecodeWhole(stream).calls

\* C6: an inference() call with a malformed credential appends no unit to
\* the request queue.
C6_ValidatedBeforeQueuing ==
    \A i \in 1..Len(requestQueue) : ~Malformed(units[requestQueue[i]].apiKey)

\* C7: for a malformed credential the request is rejected with the
\* invalid-credential error and fetch is never called, through inference()
\* (the unit is never fetched and is rejected with the validation error) and
\* through handleRunTask (it shows the validation error and submits nothing).
C7_UnitsState ==
    \A u \in UnitIds :
        Malformed(units[u].apiKey) =>
            /\ ~units[u].fetched
            /\ units[u].phase \in {"queued", "rejected"}
            /\ units[u].phase = "rejected" => units[u].value \in InvalidCredentialErrors
            /\ units[u].owner = "direct"

KeyValidationErrors ==
    {"API key is required", "API key must start with gsk_", "API key appears to be too short"}

C7_RunStep ==
    \A t \in TaskIds :
        (Malformed(StoredKey) /\ HandleRunTask(t, PageUnits)) =>
            /\ toast'.page = "Tasks"
            /\ toast'.text \in KeyValidationErrors
            /\ units' = units
            /\ requestQueue' = requestQueue
            /\ tasks' = tasks

C8_ListenerIsolation ==
    lastEmit.threw => SeqToSet(lastEmit.at) \subseteq SeqToSet(lastEmit.notified)

\* C9: getEvents() returns the min(n, 100) most recently emitted events, in
\* emission order, n being the number of emits (since the history was last
\* cleared); the history never holds more than 100 events.
C9_BoundedHistory ==
    /\ Len(getEvents) = Min(Len(emitted), 100)
    /\ getEvents = SubSeq(emitted, Len(emitted) - Len(getEvents) + 1, Len(emitted))
    /\ Len(events) <= 100

\* C9 witness: more than 100 events were emitted
C9_Witness == Len(emitted) > 100 /\ Len(events) = 100

\* C10: each emit notifies every listener subscribed at that moment exactly
\* once, in subscription order, and no listener that unsubscribed.
C10_NotifiesSubscribers ==
    lastEmit.id > 0 => lastEmit.notified = lastEmit.at

\* C11: a task's persisted status changes only along todo -> in_progress,
\* in_progress -> done, in_progress -> failed, done -> in_progress and
\* failed -> in_progress.
C11_StatusMachine ==
    \A m \in moves :
        <<m[2], m[3]>> \in {<<"todo", "in_progress">>, <<"in_progress", "done">>,
                           <<"in_progress", "failed">>, <<"done", "in_progress">>,
                           <<"failed", "in_progress">>}

\* C11 witness: a task was executed to done, executed again and failed
C11_Witness ==
    \E t \in TaskIds :
        /\ {<<t, "todo", "in_progress">>, <<t, "in_progress", "done">>,
            <<t, "done", "in_progress">>, <<t, "in_progress", "failed">>} \subseteq moves
        /\ tasks[t].status = "failed"

\* the run of task t passes the pre-checks of handleRunTask
PassesPreChecks(t) ==
    /\ ~Malformed(StoredKey)
    /\ agent_id(t) \in Agents

\* an error event for task t with this message is published in the step
ErrorPublished(t, errorMessage) ==
    \E i \in (Len(emitted) + 1)..Len(emitted') :
        /\ emitted'[i].type = "error"
        /\ emitted'[i].taskId = t
        /\ emitted'[i].content = <<"Task failed: ", errorMessage>>

\* C12: executing a task whose parent is not done fails with the dependency
\* error before a unit is queued: the units and the queue stay as they
\* were, nothing is fetched, and the task is persisted as failed.
C12_RunStep ==
    \A t \in TaskIds :
        (/\ HandleRunTask(t, PageUnits)
         /\ PassesPreChecks(t)
         /\ parent_task_id(t) # "none"
         /\ tasks[parent_task_id(t)].status \in {"todo", "in_progress", "failed"}) =>
            /\ units' = units
            /\ requestQueue' = requestQueue
            /\ loops' = loops
            /\ tasks'[t] = [status |-> "failed",
                            result |-> <<"Error: ", "Parent task is not completed yet.">>]

C12_DependencyFailsFast == [][C12_RunStep]_vars

\* C12 witness: the chained task failed on its dependency while its parent
\* was in progress, and nothing was queued for it
C12_Witness ==
    /\ tasks["T1"].status = "in_progress"
    /\ tasks["T2"] = [status |-> "failed",
                      result |-> <<"Error: ", "Parent task is not completed yet.">>]
    /\ \A u \in UnitIds : units[u].owner # "T2"

\* the unit u settles as rejected in the step
BecomesRejected(u) ==
    /\ u \in 1..Len(units')
    /\ units'[u].phase = "rejected"
    /\ (u \in UnitIds => units[u].phase # "rejected")

\* the error message of the taxonomy for a unit that failed on its response
TaxonomyMessages(unit) ==
    CASE unit.response.kind = "http" /\ unit.response.status = 429 ->
            {"Rate limit exceeded. Please wait a moment and try again."}
      [] unit.response.kind = "http" /\ unit.response.status = 401 ->
            {"Invalid API key. Please check your Groq API key in Settings."}
      [] unit.response.kind = "http" /\ unit.response.status >= 500 ->
            {"Groq API is temporarily unavailable. Please try again later."}
      [] unit.response.kind = "http" -> {ProviderMessage, StatusLine(unit.response.status)}
      [] unit.response.kind = "nobody" -> {"No response body received from API"}
      [] unit.response.kind = "none" -> InvalidCredentialErrors
      [] OTHER -> {NetworkError, StreamError}

\* the run of task t ends in the step as the taxonomy requires: persisted
\* as failed with 'Error: <message>', an error event published for the task
EndsFailed(t, messages) ==
    \E errorMessage \in messages :
        /\ tasks'[t] = [status |-> "failed", result |-> <<"Error: ", errorMessage>>]
        /\ ErrorPublished(t, errorMessage)

\* a task execution that hits the dependency error or fails in its unit
C13_LaterFailures ==
    \A t \in TaskIds :
        /\ (/\ HandleRunTask(t, PageUnits)
            /\ PassesPreChecks(t)
            /\ parent_task_id(t) # "none"
            /\ tasks[parent_task_id(t)].status \in {"todo", "in_progress", "failed"}) =>
                EndsFailed(t, {"Parent task is not completed yet."})
        /\ \A u \in 1..Len(units') :
                (BecomesRejected(u) /\ units'[u].owner = t /\ tasks[t] # Absent) =>
                    EndsFailed(t, TaxonomyMessages(units'[u]))

\* a task execution stopped by the credential check
C13_InvalidCredential ==
    \A t \in TaskIds :
        (HandleRunTask(t, PageUnits) /\ Malformed(StoredKey)) =>
            EndsFailed(t, KeyValidationErrors \cup InvalidCredentialErrors)

\* C13: a task execution that hits an error of the taxonomy (invalid
\* credential, rate limited, unauthorized, unavailable, provider error,
\* missing body, dependency not satisfied) leaves the task persisted as
\* failed with result 'Error: <message>' and publishes an error event for
\* the task; an HTTP 429 gives the rate-limit message.
C13_FailureSurfaced == [][C13_InvalidCredential /\ C13_LaterFailures]_vars

\* C14: a non-success response is classified by its status alone: 429 is
\* rate-limited, 401 unauthorized, 500 and above unavailable, every other
\* status the provider's message or 'HTTP <status>: <statusText>'; the
\* stream decoder is never started for it.
C14_Classification ==
    \A u \in UnitIds :
        units[u].response.kind = "http" =>
            /\ units[u].phase \in {"errorBody", "rejected"}
            /\ units[u].dec = NewDecoder(units[u].owner # "direct")
            /\ units[u].rest = <<>>
            /\ units[u].phase = "rejected" =>
                units[u].value =
                    CASE units[u].response.status = 429 ->
                            "Rate limit exceeded. Please wait a moment and try again."
                      [] units[u].response.status = 401 ->
                            "Invalid API key. Please check your Groq API key in Settings."
                      [] units[u].response.status >= 500 ->
                            "Groq API is temporarily unavailable. Please try again later."
                      [] OTHER ->
                            IF units[u].response.hasMessage THEN ProviderMessage
                            ELSE StatusLine(units[u].response.status)

\* C14 witness: three units were rejected on non-success responses of
\* three kinds, one of them with the provider's message
C14_Witness ==
    /\ Len(units) = 3
    /\ \A u \in UnitIds : units[u].phase = "rejected" /\ units[u].response.kind = "http"
    /\ units[1].value = UnauthorizedError
    /\ units[2].value = UnavailableError
    /\ units[3].value = ProviderMessage

\* C15: HelloStream with one malformed data line inserted at any position
\* decodes to the same text and the same callback sequence as HelloStream.
C15_MalformedLineSkipped ==
    (decPc = "returned" /\ stream \in MalformedStreams) =>
        /\ dec.fullContent = Hello
        /\ dec.calls = <<OnThinkingNull, OnChunk(Hel), OnChunk(Hello)>>

\* the arguments of the onChunk (onDelta) calls so far, in order
OnChunkArgs(calls) ==
    LET idx == SelectSeq([i \in 1..Len(calls) |-> i], LAMBDA i : calls[i].cb = "onChunk")
    IN [k \in 1..Len(idx) |-> calls[idx[k]].arg]

\* the number of onThinking(null) (onStatus(null)) calls so far
StatusNullCalls(calls) == Cardinality({i \in 1..Len(calls) : calls[i] = OnThinkingNull})

\* the index of the first sentinel line among lines, 0 when there is none
FirstDone(lines) ==
    IF \E k \in 1..Len(lines) : lines[k] = DoneLine
    THEN CHOOSE k \in 1..Len(lines) :
            lines[k] = DoneLine /\ \A j \in 1..(k - 1) : lines[j] # DoneLine
    ELSE 0

\* a chunk with the sentinel line is read: the decoder returns with what the
\* lines before the sentinel made of the text and of the callbacks
C18_SentinelStep ==
    (decPc = "reading" /\ Len(reader') < Len(reader)) =>
        \A lines \in {FilterNonBlank(SplitLines(SubSeq(reader, 1, Len(reader) - Len(reader'))))} :
            \A k \in {FirstDone(lines)} :
                k > 0 =>
                    \A before \in {ProcessLines(dec, SubSeq(lines, 1, k - 1))} :
                        /\ decPc' = "returned"
                        /\ dec'.fullContent = before.fullContent
                        /\ dec'.calls = before.calls

\* after the return nothing is read and no callback is called
C18_ReturnedStep == decPc = "returned" => (dec' = dec /\ decPc' = decPc)

\* a frame that follows the sentinel adds nothing
C18_AfterDone ==
    (decPc = "returned" /\ aligned /\ stream = AfterDoneStream) =>
        /\ dec.fullContent = Hel
        /\ dec.calls = <<OnThinkingNull, OnChunk(Hel)>>

\* C18: once the line 'data: [DONE]' is read the decoder returns the text
\* accumulated before it; no later line of the chunk and no later chunk adds
\* to the text or calls onDelta or onStatus.
C18_SentinelStops ==
    /\ []C18_AfterDone
    /\ [][C18_SentinelStep /\ C18_ReturnedStep]_vars

\* C18 witness: the decoder returned at the sentinel of a chunk that also
\* held the frame after it
C18_Witness ==
    /\ decPc = "returned"
    /\ stream = AfterDoneStream
    /\ reader = <<>>
    /\ aligned
    /\ dec.fullContent = Hel

\* C19: onStatus(null) is called exactly once when the stream has a non-empty
\* delta, at the first non-empty delta and before the first onDelta call,
\* and never when the stream has none.
C19_StatusNullOnce ==
    decPc = "returned" =>
        IF stream = NoDeltaStream
        THEN dec.calls = <<>>
        ELSE /\ StatusNullCalls(dec.calls) = 1
             /\ dec.calls[1] = OnThinkingNull
             /\ dec.calls[2] = OnChunk(Hel)

\* C20: every onDelta argument strictly extends the one before it, the
\* accumulated text is the last argument (empty when there was no call),
\* and the text returned, at the sentinel or at the end of the body, is
\* that accumulated text.
C20_CumulativeDeltas ==
    LET args == OnChunkArgs(dec.calls) IN
    /\ \A k \in 1..Len(args) :
            LET before == IF k = 1 THEN <<>> ELSE args[k - 1] IN
            /\ Len(args[k]) > Len(before)
            /\ SubSeq(args[k], 1, Len(before)) = before
    /\ dec.fullContent = IF args = <<>> THEN <<>> ELSE args[Len(args)]
    /\ (decPc = "returned" /\ aligned /\ stream \in {HelloStream, HelloNoDone}) =>
            args = <<Hel, Hello>>

\* C20 witness: the body ended without a sentinel after two deltas
C20_Witness ==
    /\ decPc = "returned"
    /\ stream = HelloNoDone
    /\ reader = <<>>
    /\ OnChunkArgs(dec.calls) = <<Hel, Hello>>
    /\ dec.fullContent = Hello

\* the text a successful response carries
TextOf(response) ==
    CASE response = HelloResponse -> Hello
      [] response = HiResponse -> Hi
      [] OTHER -> <<"?">>

\* the units submitted by runs of task t
UnitsOf(t) == {u \in UnitIds : units[u].owner = t}

\* C16: the result persisted for a task on success is the text decoded from
\* the response of the task's own unit (its latest one), also while units of
\* other tasks are queued or executing.
C16_OwnResult ==
    \A t \in TaskIds :
        tasks[t].status = "done" =>
            /\ UnitsOf(t) # {}
            /\ \A u \in UnitsOf(t) :
                    (\A v \in UnitsOf(t) : v <= u) =>
                        /\ units[u].phase = "resolved"
                        /\ tasks[t].result = units[u].value
                        /\ tasks[t].result = TextOf(units[u].response)

\* C16 witness: T4 was started while T1's unit was in flight, and the two
\* tasks are done with the different texts of their own responses
C16_Witness ==
    /\ Len(units) = 2
    /\ units[1].owner = "T1" /\ units[2].owner = "T4"
    /\ tasks["T1"] = [status |-> "done", result |-> Hello]
    /\ tasks["T4"] = [status |-> "done", result |-> Hi]
    /\ \E i, j \in 1..Len(emitted) :
            /\ i < j
            /\ emitted[i].taskId = "T4" /\ emitted[i].type = "thinking"
            /\ emitted[i].content = "Task execution started"
            /\ emitted[j].taskId = "T1" /\ emitted[j].type = "output"
            /\ emitted[j].content = Hel

\* C17: the user content submitted for a task with a parent is the parent's
\* persisted result, which is done, placed before the task's description;
\* for a task without a parent it is the description alone.
C17_RunStep ==
    \A t \in TaskIds :
        (Len(units') = Len(units) + 1 /\ units'[Len(units')].owner = t) =>
            LET p == parent_task_id(t) IN
            /\ p = "none" => units'[Len(units')].userContent = <<description(t)>>
            /\ (p # "none" /\ tasks[p].status = "done") =>
                    units'[Len(units')].userContent =
                        <<"[CONTEXT FROM PREVIOUS TASK ", p, "]:", tasks[p].result,
                          "[CURRENT TASK INSTRUCTIONS]:", description(t)>>

C17_ParentContext == [][C17_RunStep]_vars

\* C17 witness: the chained task was submitted with its parent's result
C17_Witness ==
    \E u \in UnitIds :
        /\ units[u].owner = "T2"
        /\ Len(units[u].userContent) = 6
        /\ units[u].userContent[4] = Hi
        /\ units[u].userContent[6] = description("T2")

\* the unit u settles as resolved in the step
BecomesResolved(u) ==
    /\ u \in 1..Len(units')
    /\ units'[u].phase = "resolved"
    /\ (u \in UnitIds => units[u].phase # "resolved")

\* C21: executing a task again overwrites its result: the result is reset
\* to the empty text when the task enters in_progress, and when the run
\* ends it is the new run's output or its error text alone, with nothing
\* of the earlier result.
C21_RunStep ==
    \A t \in TaskIds :
        (tasks'[t] # tasks[t] /\ tasks'[t] # Absent) =>
            \/ tasks'[t] = [status |-> "in_progress", result |-> <<>>]
            \/ \E u \in 1..Len(units') :
                    /\ units'[u].owner = t
                    /\ \/ /\ BecomesResolved(u)
                          /\ tasks'[t] = [status |-> "done", result |-> units'[u].value]
                       \/ /\ BecomesRejected(u)
                          /\ tasks'[t] = [status |-> "failed",
                                          result |-> <<"Error: ", units'[u].value>>]
            \/ tasks'[t] = [status |-> "failed",
                            result |-> <<"Error: ", ParentNotDoneError>>]

C21_ResultOverwritten == [][C21_RunStep]_vars

\* C21 witness: a task that was done with one text was executed again, its
\* result was reset, and it is done with the other text
C21_Witness ==
    \E t \in TaskIds :
        /\ {<<t, "in_progress", "done">>, <<t, "done", "in_progress">>} \subseteq moves
        /\ Cardinality(UnitsOf(t)) = 2
        /\ \A u \in UnitsOf(t) : units[u].phase = "resolved"
        /\ \E u, v \in UnitsOf(t) : u < v /\ units[u].value = Hello /\ units[v].value = Hi
        /\ tasks[t] = [status |-> "done", result |-> Hi]

\* a unit that was dispatched and whose promise is settled
Finished(u) == u <= Len(units) /\ Settled(units[u]) /\ units[u].startT >= 0

\* the claim's assumption: no unit stays in execution for ever
EveryDispatchedUnitFinishes ==
    \A u \in 1..LiveUnits : []<>(u > Len(units) \/ ~Executing(units[u]))

\* C22: when every dispatched unit finishes, every unit submitted through
\* inference() is dispatched and its promise settled, once (a settled unit
\* stays as it settled); no submission is stranded: while the queue holds a
\* unit, a drain loop is active.
C22_NoStrandedUnit ==
    /\ EveryDispatchedUnitFinishes => []<>(\A u \in UnitIds : Finished(u))
    /\ [][\A u \in UnitIds : Settled(units[u]) => units'[u] = units[u]]_vars
    /\ [](requestQueue # <<>> => (isProcessing /\ Len(loops) = 1))

\* C22 witness: every unit submitted is settled, some resolved and some
\* rejected, the last one after a rate-limit wait, and the client is at rest
C22_Witness ==
    /\ Len(units) = LiveUnits
    /\ \A u \in UnitIds : Finished(u)
    /\ \E u, v \in UnitIds : units[u].phase = "resolved" /\ units[v].phase = "rejected"
    /\ units[LiveUnits].startT = units[LiveUnits - 1].endT + RATE_LIMIT_DELAY
    /\ requestQueue = <<>> /\ loops = <<>> /\ ~isProcessing

\* C23: a request is queued for a task with a parent only when the parent
\* is in the task list with status done, also after the parent was deleted
\* or executed again.
C23_RunStep ==
    \A t \in TaskIds :
        (/\ Len(units') = Len(units) + 1
         /\ units'[Len(units')].owner = t
         /\ parent_task_id(t) # "none") =>
            /\ tasks[parent_task_id(t)] # Absent
            /\ tasks[parent_task_id(t)].status = "done"

C23_ParentDoneWhenQueued == [][C23_RunStep]_vars

\* the texts the onChunk callback of task t's units was called with
ChunksOf(t) ==
    UNION {{units[u].dec.calls[i].arg :
                i \in {j \in 1..Len(units[u].dec.calls) :
                           units[u].dec.calls[j].cb = "onChunk"}} : u \in UnitsOf(t)}

\* the text shown for the task in processingId is empty or a text its own
\* onChunk callback received
C24_OwnStream ==
    (processingId # "null" /\ streamingContent # <<>>) =>
        streamingContent \in ChunksOf(processingId)

\* a step in which only units of other tasks stream or finish leaves the
\* view of the task in processingId as it was
C24_OthersStep ==
    (/\ processingId # "null"
     /\ Len(units') = Len(units)
     /\ units' # units
     /\ \A u \in UnitIds : units'[u] # units[u] => units[u].owner # processingId) =>
        UNCHANGED <<processingId, streamingContent, thinkingMessage>>

\* C24: while two task executions overlap, the streaming text and the
\* thinking message shown for the task in processingId come from that
\* task's own callbacks, and they are not cleared or replaced when the
\* other execution streams or finishes.
C24_LiveViewOwn == []C24_OwnStream /\ [][C24_OthersStep]_vars

\* C25: after any sequence of create, update and delete operations on
\* agents and tasks whose save went through, a new Base44Client built from
\* localStorage holds exactly the agents and tasks that were in memory: a
\* deleted record does not come back.
C25_ReloadRestores ==
    (saveDepth = 0 /\ saveOutcome # "rejected") => loadFromStorage(localStorage) = base44

\* C26: when the stored key fails validation, or the task's agent is not
\* in the agent list, handleRunTask changes nothing: the task's status and
\* result, processingId and the texts shown stay as they were, no event is
\* published and no unit is queued.
C26_RunStep ==
    \A t \in TaskIds :
        (/\ HandleRunTask(t, PageUnits)
         /\ ~validateGroqApiKey(StoredKey) \/ agent_id(t) \notin Agents) =>
            UNCHANGED <<tasks, tasksView, moves, processingId, streamingContent,
                        thinkingMessage, events, emitted, nextId, units,
                        requestQueue, loops, isProcessing>>

C26_PreChecksChangeNothing == [][C26_RunStep]_vars

\* C26 witness: with a valid key stored and another task in flight, the
\* run of the task whose agent is missing stopped at the agent check
C26_Witness ==
    /\ validateGroqApiKey(StoredKey)
    /\ toast = Toast("Tasks", "Assigned agent not found")
    /\ tasks["T3"] = [status |-> "todo", result |-> <<>>]
    /\ \E u \in UnitIds : units[u].owner = "T1" /\ Executing(units[u])
    /\ processingId = "T1"

\* the events published in the step, in order
NewEvents == SubSeq(emitted', Len(emitted) + 1, Len(emitted'))

IsStatus(e, status) == e.type = "agent_status" /\ e.content = <<"Agent ", status>>

\* an execution of task t starts in the step (it passes the pre-checks)
Starts(t) == HandleRunTask(t, PageUnits) /\ PassesPreChecks(t)

\* the execution of task t ends in the step: its unit settles, or it
\* started and stopped on its dependency before a unit was queued
Ends(t) ==
    \/ \E u \in 1..Len(units') :
            units'[u].owner = t /\ (BecomesResolved(u) \/ BecomesRejected(u))
    \/ Starts(t) /\ Len(units') = Len(units)

\* an execution of task t is under way during the step
Open(t) == Starts(t) \/ \E u \in UnitsOf(t) : ~Settled(units[u])

\* C27: every task execution that passes the pre-checks publishes one
\* agent_status 'running' event before any other event of the execution and
\* one agent_status 'idle' event as its last event, on success and on every
\* failure; the thinking, output and error events between them carry the
\* execution's agentId and taskId.
C27_RunStep ==
    \A E \in {NewEvents} :
        /\ \A t \in TaskIds :
              /\ Starts(t) =>
                    /\ E # <<>>
                    /\ IsStatus(E[1], "running")
                    /\ E[1].agentId = agent_id(t)
              /\ Ends(t) =>
                    /\ E # <<>>
                    /\ IsStatus(E[Len(E)], "idle")
                    /\ E[Len(E)].agentId = agent_id(t)
        /\ \A i \in 1..Len(E) :
              /\ IsStatus(E[i], "running") => (i = 1 /\ \E t \in TaskIds : Starts(t))
              /\ IsStatus(E[i], "idle") => (i = Len(E) /\ \E t \in TaskIds : Ends(t))
              /\ E[i].type \in {"thinking", "output", "error"} =>
                    /\ E[i].taskId \in TaskIds
                    /\ E[i].agentId = agent_id(E[i].taskId)
                    /\ Open(E[i].taskId)

C27_StatusBrackets == [][C27_RunStep]_vars

\* C27 witness: one execution succeeded and one failed, each between its
\* 'running' and its 'idle' event
C27_Witness ==
    /\ Len(emitted) >= 2
    /\ IsStatus(emitted[1], "running")
    /\ IsStatus(emitted[Len(emitted)], "idle")
    /\ Cardinality({i \in 1..Len(emitted) : IsStatus(emitted[i], "running")}) = 2
    /\ Cardinality({i \in 1..Len(emitted) : IsStatus(emitted[i], "idle")}) = 2
    /\ \E i \in 1..Len(emitted) : emitted[i].type = "error" /\ emitted[i].taskId \in TaskIds
    /\ \E t \in TaskIds : tasks[t].status = "done"

\* C28: every key that Settings.handleSave accepted and stored passes
\* validateGroqApiKey and GroqAPIClient.validateApiKey when it is read back.
C28_StoredKeyValid ==
    groq_api_key # {} =>
        /\ validateGroqApiKey(StoredKey)
        /\ validateApiKey(StoredKey) = "ok"

\* C29: saveToStorage ends after a bounded number of retries whatever the
\* number of stored agents and tasks: a call that failed on the quota is
\* followed by a nested call only when the eviction changed the Maps or
\* the items, so that no call repeats a write that has just failed.
C29_RetryStep ==
    (saveDepth > 0 /\ saveDepth' > saveDepth) =>
        (base44' # base44 \/ localStorage' # localStorage)

C29_SaveTerminates == [][C29_RetryStep]_vars

\* C30: saving the edit dialog of an agent without changing a field leaves
\* the stored name, role and system_prompt as they were, also for a prompt
\* with only a CAPABILITIES section, only an AVAILABLE FUNCTIONS section, or
\* characters that sanitizeInput escapes.
C30_SaveStep ==
    (editingAgent # NoAgent /\ formData = FormOf(editingAgent) /\ HandleSubmit) =>
        agent' = agent

C30_EditSaveIdempotent == [][C30_SaveStep]_vars

====
